---- MODULE Spec2Model ----
(***************************************************************************)
(* Model of mqtt_subscriber_mariadb.py: the MQTT -> MariaDB / MongoDB      *)
(* bridge.  The program's own code (the two backends' write, the four      *)
(* paho callbacks and main) is translated statement by statement; the     *)
(* broker client (paho-mqtt), the two database drivers and the operator   *)
(* at the terminal are the environment, whose choices are drawn with \E.  *)
(***************************************************************************)
EXTENDS Integers, Sequences, FiniteSets, TLC

\* ---------------------------------------------------------------- bounds
\* Messages the broker client delivers in one run.
MaxMsgs == 3
\* Reconnection attempts of loop_forever in one run.
MaxReconnects == 2

\* ------------------------------------------------------- program constants
\* userdata["exit_code"] = -2
FatalSentinel == -2

\* --------------------------------------------------------------- inputs
\* A payload is valid JSON text, text that is not JSON, or bytes that do not
\* decode as UTF-8 text at all.
Payloads == {"json", "text", "binary"}

\* args.mqtt_topic: -t is required and may be given several times.
TopicLists == {<<"#">>, <<"a", "b">>}

\* parse_args(): the namespace holds the attributes the parser's options name
\* (mariadb_host, mongodb_host, mqtt_topic, ...); a host is given or is None.
ParseArgsNamespaces ==
    [mariadb_host : BOOLEAN, mongodb_host : BOOLEAN, mqtt_topic : TopicLists]

\* MariaDBBackend.__init__ reads args.db_host, db_port, db_user, db_password and
\* db_name, none of which parse_args sets.  A namespace that carries them too
\* (one field stands for the five) is the only one a relational backend is
\* ever built from; it is what the callbacks are exercised with whenever a
\* relational backend is in userdata["backends"].
DbNamespaces ==
    {[mariadb_host |-> TRUE, mongodb_host |-> g, mqtt_topic |-> t, db_host |-> TRUE] :
        g \in BOOLEAN, t \in TopicLists}

\* What cursor.execute / collection.insert_one does for one call.
StoreOutcomes == {"ok", "error"}

\* The reason code paho hands to on_connect with the CONNACK.
ReasonCodes == {"Success", "Refused"}

VARIABLES
    args,               \* the argparse namespace main works with
    mariadb_up,         \* the MariaDB server accepts connections at startup
    mongodb_up,         \* the MongoDB server accepts connections at startup
    pc,                 \* main's position: "start", "connect", "loop", "exited"
    backends,           \* userdata["backends"]
    exit_code,          \* userdata["exit_code"]
    conn,               \* the client's socket: "none", "tcp", "connected"
    disc_req,           \* calls of client.disconnect() made so far
    subs,               \* client.subscribe(topic, qos) calls on this socket
    connack,            \* reason code on_connect was called with on this socket, or "none"
    rows,               \* messages table of MariaDB: ids of the rows' messages
    docs,               \* MongoDB collection: ids of the documents' messages
    writes,             \* every backend.write call so far, in call order
    delivered,          \* messages handed to on_message so far
    reconnects,         \* reconnection attempts made by loop_forever
    disconnect_cbs,     \* on_disconnect invocations
    log,                \* [reconnect_warning, connect_fail_debug, skip_warning, no_backend_warning]
    exit_status,        \* the status the interpreter ends with (pc = "exited")
    uncaught            \* the exception that ended the process, or "none"

vars == <<args, mariadb_up, mongodb_up, pc, backends, exit_code, conn, disc_req,
          subs, connack, rows, docs, writes, delivered, reconnects, disconnect_cbs,
          log, exit_status, uncaught>>

\* ------------------------------------------------------------- backends

\* json.loads(msg.payload) on bytes: decodes the bytes first (UnicodeDecodeError,
\* a ValueError that is not a JSONDecodeError), then parses (JSONDecodeError).
json_loads(payload) ==
    CASE payload = "json" -> "value"
      [] payload = "text" -> "JSONDecodeError"
      [] OTHER -> "UnicodeDecodeError"

\* MariaDBBackend.write without its except clause: the driver's error leaves it.
MariaDBBackend_write_noexcept(msg, outcome) ==
    IF outcome = "ok"
    THEN [ret |-> "True", exc |-> "none", stored |-> TRUE, warned |-> FALSE]
    ELSE [ret |-> "raise", exc |-> "mariadb.Error", stored |-> FALSE, warned |-> FALSE]

\* MariaDBBackend.write: True after the insert; a mariadb.Error is logged and the
\* method falls off its end, returning None.
MariaDBBackend_write(msg, outcome) ==
    IF outcome = "ok"
    THEN [ret |-> "True", exc |-> "none", stored |-> TRUE, warned |-> FALSE]
    ELSE [ret |-> "None", exc |-> "none", stored |-> FALSE, warned |-> FALSE]

\* MongoDBBackend.write inserting the raw payload when it does not parse.
MongoDBBackend_write_storeraw(msg, outcome) ==
    LET parsed == json_loads(msg.payload) IN
    IF parsed = "UnicodeDecodeError"
    THEN [ret |-> "raise", exc |-> "UnicodeDecodeError", stored |-> FALSE, warned |-> FALSE]
    ELSE IF outcome = "ok"
         THEN [ret |-> "True", exc |-> "none", stored |-> TRUE, warned |-> FALSE]
         ELSE [ret |-> "raise", exc |-> "PyMongoError", stored |-> FALSE, warned |-> FALSE]

\* MongoDBBackend.write: only JSONDecodeError is caught (warning, True); the
\* decode error of json.loads and any error of insert_one leave the method
\* as exceptions.
MongoDBBackend_write(msg, outcome) ==
    LET parsed == json_loads(msg.payload) IN
    CASE parsed = "JSONDecodeError" ->
            [ret |-> "True", exc |-> "none", stored |-> FALSE, warned |-> TRUE]
      [] parsed = "UnicodeDecodeError" ->
            [ret |-> "raise", exc |-> "UnicodeDecodeError", stored |-> FALSE, warned |-> FALSE]
      [] OTHER ->
            IF outcome = "ok"
            THEN [ret |-> "True", exc |-> "none", stored |-> TRUE, warned |-> FALSE]
            ELSE [ret |-> "raise", exc |-> "PyMongoError", stored |-> FALSE, warned |-> FALSE]

\* backend.write(msg), dispatched on the backend's class.
Backend_write(backend, msg, outcomes) ==
    IF backend = "mariadb"
    THEN MariaDBBackend_write(msg, outcomes.mariadb)
    ELSE MongoDBBackend_write(msg, outcomes.mongodb)

\* Python's truth value of what write returned: `not backend.write(msg)`.
Falsy(ret) == ret \in {"None", "False"}

\* ------------------------------------------------------------ callbacks

\* The part of the program state on_message reads and writes.
DispatchState ==
    [exit_code |-> exit_code, disc_req |-> disc_req, rows |-> rows, docs |-> docs,
     writes |-> writes, skip_warning |-> log.skip_warning, raised |-> "none"]

\* One backend.write(msg) call as the stores and the call log see it.
Written(st, backend, msg, outcomes, r) ==
    [st EXCEPT
        !.writes = Append(@, [msg |-> msg.id, payload |-> msg.payload,
                              backend |-> backend, ret |-> r.ret,
                              outcome |-> IF backend = "mariadb" THEN outcomes.mariadb
                                          ELSE outcomes.mongodb]),
        !.rows = IF backend = "mariadb" /\ r.stored THEN Append(@, msg.id) ELSE @,
        !.docs = IF backend = "mongodb" /\ r.stored THEN Append(@, msg.id) ELSE @,
        !.skip_warning = IF r.warned THEN @ + 1 ELSE @]

\* The failure branch with the assignment of exit_code left out.
WriteFailed_noexit(st) == [st EXCEPT !.disc_req = @ + 1]

\* on_message's failure branch: userdata["exit_code"] = -2; client.disconnect().
WriteFailed(st) == [st EXCEPT !.exit_code = FatalSentinel, !.disc_req = @ + 1]

\* on_message's loop from the i-th backend on:
\*     for backend in userdata["backends"]:
\*         if not backend.write(msg):
\*             userdata["exit_code"] = -2; client.disconnect(); break
\* An exception of write leaves the loop and the callback.
\* on_message with the break left out: the loop goes on after a failure.
RECURSIVE on_message_from_nobreak(_, _, _, _)
on_message_from_nobreak(i, msg, outcomes, st) ==
    IF i > Len(backends) THEN st
    ELSE LET r == Backend_write(backends[i], msg, outcomes)
             st1 == Written(st, backends[i], msg, outcomes, r)
         IN  IF r.ret = "raise" THEN [st1 EXCEPT !.raised = r.exc]
             ELSE IF Falsy(r.ret)
                  THEN on_message_from_nobreak(i + 1, msg, outcomes, WriteFailed(st1))
                  ELSE on_message_from_nobreak(i + 1, msg, outcomes, st1)

RECURSIVE on_message_from(_, _, _, _)
on_message_from(i, msg, outcomes, st) ==
    IF i > Len(backends) THEN st
    ELSE LET r == Backend_write(backends[i], msg, outcomes)
             st1 == Written(st, backends[i], msg, outcomes, r)
         IN  IF r.ret = "raise" THEN [st1 EXCEPT !.raised = r.exc]
             ELSE IF Falsy(r.ret)
                  THEN WriteFailed(st1)
                  ELSE on_message_from(i + 1, msg, outcomes, st1)

\* on_message iterating the backends from the last to the first.
RECURSIVE on_message_down(_, _, _, _)
on_message_down(i, msg, outcomes, st) ==
    IF i < 1 THEN st
    ELSE LET r == Backend_write(backends[i], msg, outcomes)
             st1 == Written(st, backends[i], msg, outcomes, r)
         IN  IF r.ret = "raise" THEN [st1 EXCEPT !.raised = r.exc]
             ELSE IF Falsy(r.ret)
                  THEN WriteFailed(st1)
                  ELSE on_message_down(i - 1, msg, outcomes, st1)

on_message_reversed(msg, outcomes) ==
    on_message_down(Len(backends), msg, outcomes, DispatchState)

on_message(msg, outcomes) == on_message_from(1, msg, outcomes, DispatchState)

\* on_connect subscribing to the first topic only.
on_connect_firstonly(rc) == subs \o <<<<args.mqtt_topic[1], 0>>>>

\* on_connect: subscribes to every configured topic at QoS 0, whatever the
\* reason code.
on_connect(rc) ==
    subs \o [k \in 1..Len(args.mqtt_topic) |-> <<args.mqtt_topic[k], 0>>]

\* on_disconnect without its test of exit_code: it always warns.
on_disconnect_always(l) == [l EXCEPT !.reconnect_warning = @ + 1]

\* on_disconnect: the reconnect warning unless exit_code is set.
on_disconnect(l) ==
    IF exit_code # 0 THEN l
    ELSE [l EXCEPT !.reconnect_warning = @ + 1]

\* on_connect_fail: a debug line.
on_connect_fail(l) == [l EXCEPT !.connect_fail_debug = @ + 1]

\* ----------------------------------------------------------------- main

\* The backend list with the relational backend built unconditionally.
BackendsOf_always(a) ==
    <<"mariadb">> \o (IF a.mongodb_host THEN <<"mongodb">> ELSE <<>>)

\* backends = []; append MariaDBBackend(args) if args.mariadb_host, then
\* MongoDBBackend(args) if args.mongodb_host.
BackendsOf(a) ==
    (IF a.mariadb_host THEN <<"mariadb">> ELSE <<>>)
        \o (IF a.mongodb_host THEN <<"mongodb">> ELSE <<>>)

\* MariaDBBackend.__init__: mariadb.connect(host=args.db_host, ...).  Reading an
\* attribute the namespace lacks raises AttributeError, which the except clause
\* (mariadb.Error only) does not catch; the connection's mariadb.Error is
\* logged and raised again.
MariaDBBackend_init ==
    IF "db_host" \notin DOMAIN args THEN "AttributeError"
    ELSE IF mariadb_up THEN "none" ELSE "mariadb.Error"

\* MongoDBBackend.__init__: pymongo.MongoClient(url) opens no connection (it
\* connects in the background, on first use), so construction does not fail
\* on an unreachable server.
MongoDBBackend_init == "none"

\* What building the backend list raises, if anything.
BuildRaises ==
    IF args.mariadb_host /\ MariaDBBackend_init # "none" THEN MariaDBBackend_init
    ELSE IF args.mongodb_host /\ MongoDBBackend_init # "none" THEN MongoDBBackend_init
    ELSE "none"

\* An exception nobody catches ends the interpreter with status 1.
Die(exc) ==
    /\ pc' = "exited"
    /\ uncaught' = exc
    /\ exit_status' = 1

Init ==
    /\ args \in ParseArgsNamespaces \cup DbNamespaces
    /\ mariadb_up \in BOOLEAN
    /\ mongodb_up \in BOOLEAN
    /\ pc = "start"
    /\ backends = <<>>
    /\ exit_code = 0
    /\ conn = "none"
    /\ disc_req = 0
    /\ subs = <<>>
    /\ connack = "none"
    /\ rows = <<>>
    /\ docs = <<>>
    /\ writes = <<>>
    /\ delivered = 0
    /\ reconnects = 0
    /\ disconnect_cbs = 0
    /\ log = [reconnect_warning |-> 0, connect_fail_debug |-> 0,
              skip_warning |-> 0, no_backend_warning |-> 0]
    /\ exit_status = 0
    /\ uncaught = "none"

\* main up to userdata: the backends are built, a warning is logged when there
\* are none; a constructor's exception ends the process.
BuildBackends ==
    /\ pc = "start"
    /\ IF BuildRaises # "none"
       THEN /\ Die(BuildRaises)
            /\ UNCHANGED <<backends, log>>
       ELSE /\ backends' = BackendsOf(args)
            /\ log' = [log EXCEPT !.no_backend_warning =
                          IF BackendsOf(args) = <<>> THEN 1 ELSE @]
            /\ pc' = "connect"
            /\ UNCHANGED <<exit_status, uncaught>>
    /\ UNCHANGED <<args, mariadb_up, mongodb_up, connack, exit_code, conn, disc_req, subs,
                   rows, docs, writes, delivered, reconnects, disconnect_cbs>>

\* mqttc.connect(host, port, keepalive): opens the socket and sends CONNECT, or
\* raises the socket's OSError, which main does not catch.
MqttConnect ==
    /\ pc = "connect"
    /\ \E reachable \in BOOLEAN :
          IF reachable
          THEN /\ conn' = "tcp"
               /\ pc' = "loop"
               /\ UNCHANGED <<exit_status, uncaught>>
          ELSE /\ Die("OSError")
               /\ UNCHANGED conn
    /\ UNCHANGED <<args, mariadb_up, mongodb_up, connack, backends, exit_code, disc_req, subs,
                   rows, docs, writes, delivered, reconnects, disconnect_cbs, log>>

\* loop_forever returns and main calls sys.exit(userdata["exit_code"]).
SysExit ==
    /\ pc' = "exited"
    /\ exit_status' = exit_code
    /\ UNCHANGED uncaught

\* --------------------------------------------------- loop_forever's events

\* The CONNACK arrives: paho calls on_connect; after a refusal it closes the
\* socket and calls on_disconnect.
ConnAck ==
    /\ pc = "loop"
    /\ conn = "tcp"
    /\ \E rc \in ReasonCodes :
          /\ subs' = on_connect(rc)
          /\ connack' = rc
          /\ IF rc = "Success"
             THEN /\ conn' = "connected"
                  /\ UNCHANGED <<log, disconnect_cbs>>
             ELSE /\ conn' = "none"
                  /\ log' = on_disconnect(log)
                  /\ disconnect_cbs' = disconnect_cbs + 1
    /\ UNCHANGED <<args, mariadb_up, mongodb_up, pc, backends, exit_code, disc_req,
                   rows, docs, writes, delivered, reconnects, exit_status, uncaught>>

\* A PUBLISH is read from the socket and handed to on_message.  The socket stays
\* readable after client.disconnect() until the queued DISCONNECT is written, so
\* this is enabled whatever disc_req is.  An exception of on_message is raised
\* again by paho (suppress_exceptions is False) and ends the process.
Deliver ==
    /\ pc = "loop"
    /\ conn = "connected"
    /\ delivered < MaxMsgs
    /\ \E payload \in Payloads, mo \in StoreOutcomes, go \in StoreOutcomes :
          LET msg == [id |-> delivered + 1, payload |-> payload]
              st == on_message(msg, [mariadb |-> mo, mongodb |-> go])
          IN  /\ exit_code' = st.exit_code
              /\ disc_req' = st.disc_req
              /\ rows' = st.rows
              /\ docs' = st.docs
              /\ writes' = st.writes
              /\ log' = [log EXCEPT !.skip_warning = st.skip_warning]
              /\ IF st.raised # "none"
                 THEN Die(st.raised)
                 ELSE UNCHANGED <<pc, exit_status, uncaught>>
    /\ delivered' = delivered + 1
    /\ UNCHANGED <<args, mariadb_up, mongodb_up, connack, backends, conn, subs, reconnects,
                   disconnect_cbs>>

\* A lost transport treated as fatal: on_disconnect setting exit_code.
TransportDrop_fatal ==
    /\ pc = "loop"
    /\ conn # "none"
    /\ conn' = "none"
    /\ log' = on_disconnect(log)
    /\ disconnect_cbs' = disconnect_cbs + 1
    /\ exit_code' = FatalSentinel
    /\ IF disc_req > 0 THEN SysExit ELSE UNCHANGED <<pc, exit_status, uncaught>>
    /\ UNCHANGED <<args, mariadb_up, mongodb_up, connack, backends, disc_req, subs,
                   rows, docs, writes, delivered, reconnects>>

\* The transport is lost (or the broker closes it): paho calls on_disconnect.
\* loop_forever returns if client.disconnect() was called, and reconnects otherwise.
TransportDrop ==
    /\ pc = "loop"
    /\ conn # "none"
    /\ conn' = "none"
    /\ log' = on_disconnect(log)
    /\ disconnect_cbs' = disconnect_cbs + 1
    /\ IF disc_req > 0 THEN SysExit ELSE UNCHANGED <<pc, exit_status, uncaught>>
    /\ UNCHANGED <<args, mariadb_up, mongodb_up, connack, backends, exit_code, disc_req, subs,
                   rows, docs, writes, delivered, reconnects>>

\* The DISCONNECT queued by client.disconnect() is written: paho calls
\* on_disconnect and closes the socket, loop_forever returns, main exits.
DisconnectSent ==
    /\ pc = "loop"
    /\ conn # "none"
    /\ disc_req > 0
    /\ conn' = "none"
    /\ log' = on_disconnect(log)
    /\ disconnect_cbs' = disconnect_cbs + 1
    /\ SysExit
    /\ UNCHANGED <<args, mariadb_up, mongodb_up, connack, backends, exit_code, disc_req, subs,
                   rows, docs, writes, delivered, reconnects>>

\* loop_forever's reconnect (reconnect_on_failure=True): a new socket, or
\* on_connect_fail and another try later.
Reconnect ==
    /\ pc = "loop"
    /\ conn = "none"
    /\ disc_req = 0
    /\ reconnects < MaxReconnects
    /\ reconnects' = reconnects + 1
    /\ \E reachable \in BOOLEAN :
          IF reachable
          THEN /\ conn' = "tcp"
               /\ subs' = <<>>
               /\ connack' = "none"
               /\ UNCHANGED log
          ELSE /\ log' = on_connect_fail(log)
               /\ UNCHANGED <<conn, subs, connack>>
    /\ UNCHANGED <<args, mariadb_up, mongodb_up, pc, backends, exit_code, disc_req,
                   rows, docs, writes, delivered, disconnect_cbs, exit_status, uncaught>>

\* "Running until stopped with ctrl+c...": the KeyboardInterrupt leaves
\* loop_forever and main uncaught; sys.exit is not reached.
CtrlC ==
    /\ pc = "loop"
    /\ pc' = "exited"
    /\ uncaught' = "KeyboardInterrupt"
    /\ exit_status' = 130
    /\ UNCHANGED <<args, mariadb_up, mongodb_up, connack, backends, exit_code, conn, disc_req,
                   subs, rows, docs, writes, delivered, reconnects, disconnect_cbs, log>>

Next ==
    \/ BuildBackends
    \/ MqttConnect
    \/ ConnAck
    \/ Deliver
    \/ TransportDrop
    \/ DisconnectSent
    \/ Reconnect
    \/ CtrlC

Spec == Init /\ [][Next]_vars

\* The network loop keeps running: a queued DISCONNECT is eventually written.
FairSpec == Spec /\ WF_vars(DisconnectSent)

\* ------------------------------------------------------------ properties

\* The k-th write call returned a falsy value to on_message.
ReturnedFailure(k) == Falsy(writes[k].ret)

\* Some write call has returned failure.
SomeWriteFailed == \E k \in 1..Len(writes) : ReturnedFailure(k)

\* The place of a backend in userdata["backends"].
PlaceOf(backend) == CHOOSE j \in 1..Len(backends) : backends[j] = backend

\* The message ids of a sequence of write calls.
MsgIds(ws) == [k \in 1..Len(ws) |-> ws[k].msg]

\* The relational writes that returned True.
MariaSuccesses ==
    SelectSeq(writes, LAMBDA w : w.backend = "mariadb" /\ w.ret = "True")

\* The document writes that returned True for a payload that parsed.
MongoInserts ==
    SelectSeq(writes, LAMBDA w : /\ w.backend = "mongodb"
                                 /\ w.ret = "True"
                                 /\ json_loads(w.payload) = "value")

\* The namespace is one parse_args returns.
FromParseArgs == args \in ParseArgsNamespaces

\* main reached loop_forever and the process has ended from there, other than
\* by the operator's interrupt.
LoopEnded ==
    /\ pc = "exited"
    /\ uncaught \notin {"AttributeError", "mariadb.Error", "OSError", "KeyboardInterrupt"}

\* C1: within the dispatch of one message, a backend is written to only after
\* every backend before it in the set has returned success for that message,
\* and no backend is written to after one has returned failure for it.
C1_ShortCircuit ==
    \A k \in 1..Len(writes) :
        /\ \A i \in 1..(PlaceOf(writes[k].backend) - 1) :
              \E h \in 1..(k - 1) :
                  /\ writes[h].msg = writes[k].msg
                  /\ writes[h].backend = backends[i]
                  /\ writes[h].ret = "True"
        /\ ReturnedFailure(k) =>
              \A h \in (k + 1)..Len(writes) : writes[h].msg # writes[k].msg

\* C1 witness: with both backends configured, the relational write of a message
\* failed and the document backend was not called for it.
C1_Witness ==
    /\ Len(backends) = 2
    /\ \E k \in 1..Len(writes) :
          /\ writes[k].backend = "mariadb"
          /\ ReturnedFailure(k)
          /\ \A h \in 1..Len(writes) :
                writes[h].msg = writes[k].msg => writes[h].backend # "mongodb"

C3_MariaErrorIsFatal ==
    \A k \in 1..Len(writes) :
        (writes[k].backend = "mariadb" /\ writes[k].outcome = "error") =>
            /\ ReturnedFailure(k)
            /\ exit_code = FatalSentinel
            /\ disc_req >= 1
            /\ \/ pc = "exited" /\ exit_status # 0
               \/ pc = "loop" /\ ENABLED DisconnectSent

\* C3 witness: the relational insert failed and the process has exited through
\* sys.exit with the sentinel.
C3_Witness ==
    /\ pc = "exited"
    /\ uncaught = "none"
    /\ exit_status = FatalSentinel
    /\ \E k \in 1..Len(writes) :
          writes[k].backend = "mariadb" /\ writes[k].outcome = "error"

\* C4 (as claimed): whichever the backend, an error of the store's insert makes
\* write return failure, never raise, and on_message then sets exit_code to the
\* sentinel and requests disconnection.
C4_StoreErrorsAreReturned ==
    FromParseArgs => \A k \in 1..Len(writes) :
        (writes[k].outcome = "error"
            /\ (writes[k].backend = "mongodb" => json_loads(writes[k].payload) = "value")) =>
            /\ ReturnedFailure(k)
            /\ exit_code = FatalSentinel
            /\ disc_req >= 1

\* C5 (as claimed): a payload that is not valid JSON, undecodable bytes
\* included, makes the document backend's write store nothing and return True.
C5_NonJsonIsSkipped ==
    FromParseArgs => \A k \in 1..Len(writes) :
        (writes[k].backend = "mongodb" /\ json_loads(writes[k].payload) # "value") =>
            /\ writes[k].ret = "True"
            /\ \A d \in 1..Len(docs) : docs[d] # writes[k].msg

\* C6: every write that reported success added exactly one record to its store,
\* or none for a document-backend parse skip, and nothing else added any: the
\* table holds one row per message the relational backend reported success for,
\* the collection one document per such message of the document backend whose
\* payload parsed.
C6_OneRecordPerSuccess ==
    /\ rows = MsgIds(MariaSuccesses)
    /\ docs = MsgIds(MongoInserts)

\* C6 witness: two messages, one of them not JSON, both reported success by
\* both backends: two rows, one document.
C6_Witness ==
    /\ Len(backends) = 2
    /\ delivered = 2
    /\ Len(writes) = 4
    /\ \A k \in 1..Len(writes) : writes[k].ret = "True"
    /\ Len(rows) = 2
    /\ Len(docs) = 1

\* C7: with no backend configured, exit_code is 0, the bridge has requested no
\* disconnection and nothing was written anywhere, whatever was delivered and
\* whatever the connection went through.
C7_EmptySetIsInert ==
    (~args.mariadb_host /\ ~args.mongodb_host) =>
        /\ exit_code = 0
        /\ disc_req = 0
        /\ writes = <<>>
        /\ rows = <<>>
        /\ docs = <<>>

\* C7 witness: no backend, messages delivered, a disconnect and a failed
\* connection attempt seen.
C7_Witness ==
    /\ pc = "loop"
    /\ backends = <<>>
    /\ delivered >= 2
    /\ disconnect_cbs >= 1
    /\ log.connect_fail_debug >= 1
    /\ conn = "connected"

\* C8: exit_code is 0 or the sentinel, it is non-zero exactly when some write
\* has returned failure, and its only change is from 0 to the sentinel.
C8_ExitCodeLatch ==
    /\ [](/\ exit_code \in {0, FatalSentinel}
          /\ (exit_code # 0) <=> SomeWriteFailed)
    /\ [][exit_code' # exit_code => (exit_code = 0 /\ exit_code' = FatalSentinel)]_vars

\* C8 witness: exit_code holds the sentinel after a failed write, and a later
\* message has been handled since.
C8_Witness ==
    /\ exit_code = FatalSentinel
    /\ \E k \in 1..Len(writes) : ReturnedFailure(k) /\ writes[k].msg < delivered

\* C9 (as claimed): when the network loop has ended, the exit status is the
\* sentinel if a write had returned failure, and 0 otherwise.
C9_ExitStatusFollowsExitCode ==
    (FromParseArgs /\ LoopEnded) =>
        exit_status = (IF SomeWriteFailed THEN FatalSentinel ELSE 0)

\* C10 (as claimed): when a configured backend's store is unreachable at
\* startup, no broker connection is made, nothing is subscribed and no message
\* is dispatched.
C10_StartupAborts ==
    (/\ FromParseArgs
     /\ (args.mariadb_host /\ ~mariadb_up) \/ (args.mongodb_host /\ ~mongodb_up)) =>
        /\ pc \in {"start", "exited"}
        /\ conn = "none"
        /\ subs = <<>>
        /\ delivered = 0
        /\ writes = <<>>


\* C11 (as claimed): after startup with reachable stores the backend set holds
\* exactly the kinds whose host is configured, the relational one first, and
\* main has gone on towards the dispatch loop.
C11_ConfiguredBackendsRun ==
    (FromParseArgs /\ mariadb_up /\ mongodb_up /\ pc # "start") =>
        /\ backends = (IF args.mariadb_host THEN <<"mariadb">> ELSE <<>>)
                          \o (IF args.mongodb_host THEN <<"mongodb">> ELSE <<>>)
        /\ uncaught \notin {"AttributeError", "mariadb.Error"}


\* One subscribe request at QoS 0 for every configured topic, in configured order.
AllTopicsAtQos0 == [k \in 1..Len(args.mqtt_topic) |-> <<args.mqtt_topic[k], 0>>]

\* C12: the connection callbacks (on_connect, on_disconnect, on_connect_fail,
\* as run by the CONNACK, a lost or closed transport and a reconnection
\* attempt) leave exit_code and the backend set as they are, request no
\* disconnection and write to no backend; and once built, the backend set is
\* never changed, by on_message either.
C12_ConnectionCallbacksFrame ==
    /\ [][(ConnAck \/ TransportDrop \/ DisconnectSent \/ Reconnect) =>
             UNCHANGED <<exit_code, backends, disc_req, writes, rows, docs>>]_vars
    /\ [][pc # "start" => backends' = backends]_vars

\* C12 witness: with a backend in the set and a message written, the three
\* connection callbacks have all run and the bridge is connected again.
C12_Witness ==
    /\ backends # <<>>
    /\ writes # <<>>
    /\ disconnect_cbs >= 1
    /\ log.connect_fail_debug >= 1
    /\ conn = "connected"
    /\ exit_code = 0

\* C13: whenever the connection is established, on the first connect and after
\* every reconnect, the subscribe requests made on it are exactly one per
\* configured topic, at QoS 0, in configured order.
C13_SubscribedWhenConnected ==
    conn = "connected" => subs = AllTopicsAtQos0

\* C13 witness: connected again after a disconnect, exit_code 0, two topics
\* configured and subscribed.
C13_Witness ==
    /\ conn = "connected"
    /\ reconnects >= 1
    /\ disconnect_cbs >= 1
    /\ exit_code = 0
    /\ Len(args.mqtt_topic) = 2
    /\ Len(subs) = 2

\* C14 (as claimed): when on_connect is called with a refusal, no subscribe
\* request is issued.
C14_NoSubscribeOnRefusal ==
    (FromParseArgs /\ connack = "Refused") => subs = <<>>


\* C15 (as claimed): a connection attempt that fails, the first one made at
\* startup included, does not end the process.
C15_ConnectFailuresAreRetried ==
    FromParseArgs => ~(pc = "exited" /\ uncaught = "OSError")

\* C16: every on_disconnect call adds exactly one reconnect warning when
\* exit_code is 0 and none when it is set, and nothing else adds one.
C16_WarningIffExitCodeZero ==
    [][log'.reconnect_warning = log.reconnect_warning
          + (IF disconnect_cbs' = disconnect_cbs + 1 /\ exit_code = 0 THEN 1 ELSE 0)]_vars

\* C16 witness: two disconnects seen, one with exit_code 0 and one after it
\* was set: one warning.
C16_Witness ==
    /\ disconnect_cbs = 2
    /\ log.reconnect_warning = 1
    /\ exit_code = FatalSentinel

\* C17: in the call log the messages appear in delivery order, all writes of
\* one message together, and the backends of one message in configured order.
C17_SequentialDispatch ==
    \A k \in 1..(Len(writes) - 1) :
        \/ writes[k].msg < writes[k + 1].msg
        \/ /\ writes[k].msg = writes[k + 1].msg
           /\ PlaceOf(writes[k].backend) < PlaceOf(writes[k + 1].backend)

\* C17 witness: two messages written to both backends, the first message's two
\* writes before the second's.
C17_Witness ==
    /\ backends = <<"mariadb", "mongodb">>
    /\ Len(writes) >= 4
    /\ MsgIds(SubSeq(writes, 1, 4)) = <<1, 1, 2, 2>>
    /\ writes[3].backend = "mariadb"
    /\ writes[4].backend = "mongodb"

\* C18: disconnection is requested only in a step that dispatches a message and
\* leaves exit_code at the sentinel; whenever it has been requested exit_code
\* is the sentinel and a write has returned failure; and an on_disconnect call
\* that follows a request adds no reconnect warning.
C18_DisconnectOnlyAfterFailure ==
    /\ [](disc_req > 0 => (exit_code = FatalSentinel /\ SomeWriteFailed))
    /\ [][disc_req' # disc_req =>
             (delivered' = delivered + 1 /\ exit_code' = FatalSentinel)]_vars
    /\ [][(disc_req > 0 /\ disconnect_cbs' # disconnect_cbs) =>
             log'.reconnect_warning = log.reconnect_warning]_vars

\* C18 witness: the disconnect the bridge asked for has been carried out, its
\* callback has run and no warning was logged; the process has exited.
C18_Witness ==
    /\ disc_req = 1
    /\ disconnect_cbs = 1
    /\ log.reconnect_warning = 0
    /\ conn = "none"
    /\ pc = "exited"
    /\ uncaught = "none"

====
